---- MODULE Spec2Model ----
(***************************************************************************)
(* A model of the TwinSpect evaluation core: the fingerprint pipeline      *)
(* (twinspect/algos/processing.py), the index cache of the approximate     *)
(* search engine (twinspect/metrics/hamming.py) and the directory          *)
(* integrity hashes (twinspect/datasets/integrity.py).                     *)
(***************************************************************************)
EXTENDS Integers, Sequences, FiniteSets, TLC

(***************************************************************************)
(* Bounds of the model.                                                    *)
(***************************************************************************)
MaxFiles == 3
MaxRuns == 2

VARIABLES
    \* ---- fingerprint pipeline and index cache ----
    algorithm,   \* the configured Algorithm: its label and its function path
    outcome,     \* what the hash function does on the file with traversal index i
    fsTable,     \* simprint table files on disk, by the algorithm part of their name
    fsIndex,     \* index (.anns) files on disk, by the same stem
    pc,          \* where the running process is
    next_idx,    \* enumerate() counter of the submit loop
    ran,         \* tasks whose process_file call has finished (future is done)
    collected,   \* futures the as_completed loop has handled, in that order
    results,     \* the results list
    wpos,        \* rows of results already written to the open table file
    retPath,     \* the path simprint returned
    hit,         \* the last simprint call returned the cached path
    heroIndex,   \* HammingHero.index: "none", "built" or "loaded"
    hashCalls,   \* calls of the hash function so far
    runs,        \* simprint calls so far
    \* ---- check_dir_secure ----
    sDir,        \* the directory: content of the file at each relative path (0: no file)
    sDir0,       \* the directory as it was when the first call started
    sRenames,    \* renames done between the calls
    raise_dupes, \* argument of check_dir_secure
    sExpected,   \* argument `expected` of check_dir_secure
    sPc,         \* "idle" or "hashing"
    sPending,    \* hashing futures the as_completed loop has not handled yet
    seen_files,  \* the dict seen_files, as its items in insertion order
    sResults,    \* outcome of each finished call, in call order
    \* ---- check_dir_fast ----
    fTree,       \* the directory tree: the set of entries of the root folder
    fTree0,      \* the tree as it was when the first call started
    fWrites,     \* files rewritten between the calls, size and mtime kept
    raise_empty, \* argument of check_dir_fast
    fExpected,   \* argument `expected` of check_dir_fast
    fPc,         \* "idle" or "walk"
    fQueue,      \* what iter_file_meta has still to visit, in order
    hasher,      \* the bytes fed to the blake3 hasher so far
    fResults,    \* outcome of each finished call, in call order
    \* ---- Hamming search, ground truth and evaluation ----
    table,            \* the simprint table: rows with id, code and file
    missing_distance, \* the distance the index reports in an unfilled result slot
    tie_break,        \* which of two equally distant items the index graph reaches first
    numpy_codes,      \* the code matrix loaded by _load_csv
    qPc,              \* where the metric computation is
    engine,           \* "LameDuck" or "HammingHero"
    threshold,        \* argument of compute_queries
    query_results,    \* the list compute_queries collects from iter_queries
    df_ground_truth,  \* the rows ground_truth returned
    df_simprints,     \* the rows load_simprints returned
    distribution,     \* LameDuck.distribution: the Counter of distances
    passes,           \* complete LameDuck.iter_queries passes so far
    curve,            \* the list evaluate returned
    \* ---- metrics file ----
    metrics_file,     \* the metrics JSON file: whether it exists and what json.load reads
    last_data,        \* argument `data` of the last update_json call
    simprint_file,    \* the simprint table of the benchmark
    calls,            \* calls of metric functions so far
    caller,           \* the metric function called last
    last_result,      \* what it returned or raised
    computed,         \* per metric, how often it was computed and written
    \* ---- traversal of the data folder ----
    wTree,            \* the data folder: the set of entries of its root
    wOrders           \* per run of the submit loop, the files in enumerate() order

pipeVars == <<algorithm, outcome, fsTable, fsIndex, pc, next_idx, ran, collected,
              results, wpos, retPath, hit, heroIndex, hashCalls, runs>>

secVars == <<sDir, sDir0, sRenames, raise_dupes, sExpected, sPc, sPending, seen_files,
             sResults>>

fastVars == <<fTree, fTree0, fWrites, raise_empty, fExpected, fPc, fQueue, hasher, fResults>>

searchVars == <<distribution, passes, df_simprints, table, missing_distance, tie_break, numpy_codes, qPc, engine, threshold,
                query_results, df_ground_truth, curve>>

storeVars == <<simprint_file, metrics_file, last_data, calls, caller, last_result, computed>>

walkVars == <<wTree, wOrders>>

vars == <<pipeVars, secVars, fastVars, searchVars, storeVars, walkVars>>

notPipe == <<secVars, fastVars, searchVars, storeVars, walkVars>>
notSec == <<pipeVars, fastVars, searchVars, storeVars, walkVars>>
notFast == <<pipeVars, secVars, searchVars, storeVars, walkVars>>
notSearch == <<pipeVars, secVars, fastVars, storeVars, walkVars>>
notStore == <<pipeVars, secVars, fastVars, searchVars, walkVars>>
notWalk == <<pipeVars, secVars, fastVars, searchVars, storeVars>>

(***************************************************************************)
(* Fingerprint pipeline                                                    *)
(***************************************************************************)

\* Algorithm configurations: load_function needs "module:function"; the label
\* is free text and may or may not equal the function path.
AlgorithmConfigs ==
    { [label |-> "m:f", function |-> "m:f"],
      [label |-> "algo", function |-> "m:f"] }

AlgoKeys == {"m:f", "algo"}

Outcomes == {"code", "null", "raise"}

NoFile == [exists |-> FALSE, closed |-> FALSE, rows |-> <<>>]

\* result_path(algo, data_folder, extension, tag): the file name is
\* {algo}-{dataset_label}-{checksum}[-{tag}].{extension}; dataset and checksum
\* are fixed here (one unmodified data folder), so the first argument decides.
result_path(algo) == algo

\* Benchmark.filepath: result_path(self.algorithm.label, ...)
filepath(alg) == result_path(alg.label)

Range(s) == { s[k] : k \in DOMAIN s }

NumFiles == Len(outcome)
FileIds == 0 .. (NumFiles - 1)

\* function(task.file) of process_file, for a call that returns
TaskOf(i) == [id |-> i, code |-> IF outcome[i + 1] = "code" THEN "hex" ELSE "None"]

RECURSIVE InsertById(_, _)
InsertById(t, s) ==
    IF s = <<>> THEN <<t>>
    ELSE IF t.id < Head(s).id THEN <<t>> \o s
    ELSE <<Head(s)>> \o InsertById(t, Tail(s))

SortById_Unsorted(s) == s

\* sorted(results, key=lambda obj: obj.id)
RECURSIVE SortById(_)
SortById(s) == IF s = <<>> THEN <<>> ELSE InsertById(Head(s), SortById(Tail(s)))

CachedTableExists_Never(path) == FALSE

\* file_path.exists() in simprint
CachedTableExists(path) == fsTable[path].exists

InitPipe ==
    /\ algorithm \in AlgorithmConfigs
    /\ outcome \in UNION { [1 .. n -> Outcomes] : n \in 0 .. MaxFiles }
    /\ fsTable = [k \in AlgoKeys |-> NoFile]
    /\ fsIndex = [k \in AlgoKeys |-> NoFile]
    /\ pc = "idle"
    /\ next_idx = 0
    /\ ran = {}
    /\ collected = <<>>
    /\ results = <<>>
    /\ wpos = 0
    /\ retPath = "none"
    /\ hit = FALSE
    /\ heroIndex = "none"
    /\ hashCalls = 0
    /\ runs = 0

\* simprint(benchmark), cache hit: the cached path is returned
SimprintCached ==
    /\ pc = "idle"
    /\ runs < MaxRuns
    /\ CachedTableExists(filepath(algorithm))
    /\ pc' = "returned"
    /\ retPath' = filepath(algorithm)
    /\ hit' = TRUE
    /\ runs' = runs + 1
    /\ UNCHANGED <<algorithm, outcome, fsTable, fsIndex, next_idx, ran, collected,
                   results, wpos, heroIndex, hashCalls>>
    /\ UNCHANGED notPipe

\* simprint(benchmark), cache miss: process_data_folder starts
SimprintMiss ==
    /\ pc = "idle"
    /\ runs < MaxRuns
    /\ ~CachedTableExists(filepath(algorithm))
    /\ pc' = "submit"
    /\ hit' = FALSE
    /\ runs' = runs + 1
    /\ UNCHANGED <<algorithm, outcome, fsTable, fsIndex, next_idx, ran, collected,
                   results, wpos, retPath, heroIndex, hashCalls>>
    /\ UNCHANGED notPipe

\* one round of the submit loop; after the last file the as_completed loop starts
Submit ==
    /\ pc = "submit"
    /\ IF next_idx < NumFiles
          THEN /\ next_idx' = next_idx + 1
               /\ pc' = pc
          ELSE /\ pc' = "collect"
               /\ next_idx' = next_idx
    /\ UNCHANGED <<algorithm, outcome, fsTable, fsIndex, ran, collected, results,
                   wpos, retPath, hit, heroIndex, hashCalls, runs>>
    /\ UNCHANGED notPipe

\* a worker thread runs process_file on a submitted task
WorkerRun(i) ==
    /\ pc \in {"submit", "collect", "aborting"}
    /\ i < next_idx
    /\ i \notin ran
    /\ ran' = ran \cup {i}
    /\ hashCalls' = hashCalls + 1
    /\ UNCHANGED <<algorithm, outcome, fsTable, fsIndex, pc, next_idx, collected,
                   results, wpos, retPath, hit, heroIndex, runs>>
    /\ UNCHANGED notPipe

\* one round of the as_completed loop: future.result() re-raises the task's
\* exception; a null code is logged and skipped; otherwise the task is appended
Collect(i) ==
    /\ pc = "collect"
    /\ i \in ran \ Range(collected)
    /\ collected' = Append(collected, i)
    /\ IF outcome[i + 1] = "raise"
          THEN /\ pc' = "aborting"
               /\ results' = results
          ELSE /\ pc' = pc
               /\ results' = IF outcome[i + 1] = "null" THEN results
                             ELSE Append(results, TaskOf(i))
    /\ UNCHANGED <<algorithm, outcome, fsTable, fsIndex, next_idx, ran, wpos,
                   retPath, hit, heroIndex, hashCalls, runs>>
    /\ UNCHANGED notPipe

\* the exception leaves the with-block once the executor has shut down
\* (shutdown waits for every submitted task); process_data_folder raises
AbortDone ==
    /\ pc = "aborting"
    /\ ran = FileIds
    /\ pc' = "failed"
    /\ UNCHANGED <<algorithm, outcome, fsTable, fsIndex, next_idx, ran, collected,
                   results, wpos, retPath, hit, heroIndex, hashCalls, runs>>
    /\ UNCHANGED notPipe

\* all futures handled: sort the results and open the table file for writing
SortAndOpen ==
    /\ pc = "collect"
    /\ Len(collected) = NumFiles
    /\ results' = SortById(results)
    /\ fsTable' = [fsTable EXCEPT ![result_path(algorithm.function)] =
                       [exists |-> TRUE, closed |-> FALSE, rows |-> <<>>]]
    /\ wpos' = 0
    /\ pc' = "write"
    /\ UNCHANGED <<algorithm, outcome, fsIndex, next_idx, ran, collected, retPath,
                   hit, heroIndex, hashCalls, runs>>
    /\ UNCHANGED notPipe

\* writer.writerow for the next item, or the close of the file and the return
WriteRow ==
    /\ pc = "write"
    /\ LET p == result_path(algorithm.function) IN
       IF wpos < Len(results)
          THEN /\ fsTable' = [fsTable EXCEPT ![p].rows = Append(@, results[wpos + 1])]
               /\ wpos' = wpos + 1
               /\ pc' = pc
               /\ retPath' = retPath
          ELSE /\ fsTable' = [fsTable EXCEPT ![p].closed = TRUE]
               /\ wpos' = wpos
               /\ pc' = "returned"
               /\ retPath' = p
    /\ UNCHANGED <<algorithm, outcome, fsIndex, next_idx, ran, collected, results,
                   hit, heroIndex, hashCalls, runs>>
    /\ UNCHANGED notPipe

IndexFileExists_Never(path) == FALSE

\* self.index_file.exists() in HammingHero._load
IndexFileExists(path) == fsIndex[path].exists

\* HammingHero(csv_path)._load: _load_csv reads the codes (hex_codes[0] fails on a
\* table without rows), then an existing index file is read; a file that was
\* never completed may be read as an index or make read_index_binary fail
HeroLoad ==
    /\ pc = "returned"
    /\ IF fsTable[retPath].rows = <<>>
          THEN pc' = "hero_failed" /\ heroIndex' = heroIndex
          ELSE IF IndexFileExists(retPath)
                  THEN \/ pc' = "hero_ready" /\ heroIndex' = "loaded"
                       \/ /\ ~fsIndex[retPath].closed
                          /\ pc' = "hero_failed"
                          /\ heroIndex' = heroIndex
                  ELSE pc' = "hero_build" /\ heroIndex' = "built"
    /\ UNCHANGED <<algorithm, outcome, fsTable, fsIndex, next_idx, ran, collected,
                   results, wpos, retPath, hit, hashCalls, runs>>
    /\ UNCHANGED notPipe

\* HammingHero._save: write_index_binary creates the file ...
HeroSaveOpen ==
    /\ pc = "hero_build"
    /\ fsIndex' = [fsIndex EXCEPT ![retPath] =
                       [exists |-> TRUE, closed |-> FALSE, rows |-> <<>>]]
    /\ pc' = "hero_save"
    /\ UNCHANGED <<algorithm, outcome, fsTable, next_idx, ran, collected, results,
                   wpos, retPath, hit, heroIndex, hashCalls, runs>>
    /\ UNCHANGED notPipe

\* ... and completes it
HeroSaveClose ==
    /\ pc = "hero_save"
    /\ fsIndex' = [fsIndex EXCEPT ![retPath].closed = TRUE]
    /\ pc' = "hero_ready"
    /\ UNCHANGED <<algorithm, outcome, fsTable, next_idx, ran, collected, results,
                   wpos, retPath, hit, heroIndex, hashCalls, runs>>
    /\ UNCHANGED notPipe

ResetProcess ==
    /\ pc' = "idle"
    /\ next_idx' = 0
    /\ ran' = {}
    /\ collected' = <<>>
    /\ results' = <<>>
    /\ wpos' = 0
    /\ retPath' = "none"
    /\ hit' = FALSE
    /\ heroIndex' = "none"

\* the process is terminated from outside while it works; the files stay
Terminate ==
    /\ pc \in {"submit", "collect", "aborting", "write", "returned", "hero_build",
              "hero_save"}
    /\ ResetProcess
    /\ UNCHANGED <<algorithm, outcome, fsTable, fsIndex, hashCalls, runs>>
    /\ UNCHANGED notPipe

\* the process ends by itself (run finished, or the exception surfaced)
Exit ==
    /\ pc \in {"failed", "hero_failed", "hero_ready"}
    /\ ResetProcess
    /\ UNCHANGED <<algorithm, outcome, fsTable, fsIndex, hashCalls, runs>>
    /\ UNCHANGED notPipe

NextPipe ==
    \/ SimprintCached
    \/ SimprintMiss
    \/ Submit
    \/ \E i \in FileIds : WorkerRun(i)
    \/ \E i \in FileIds : Collect(i)
    \/ AbortDone
    \/ SortAndOpen
    \/ WriteRow
    \/ HeroLoad
    \/ HeroSaveOpen
    \/ HeroSaveClose
    \/ Terminate
    \/ Exit


(***************************************************************************)
(* check_dir_secure                                                        *)
(***************************************************************************)

MaxPaths == 3
MaxContents == 2
MaxRenames == 1

\* Relative paths, named by their rank in the order of pathlib.Path
Paths == 1 .. MaxPaths
\* File contents (byte strings), named by number
Contents == 1 .. MaxContents

\* hash_file_secure: the blake3 digest of the file's bytes; equal bytes give
\* equal digests and, blake3 taken as collision-free, only they do
hash_file_secure(content) == [blake3 |-> content]

\* blake3 hasher after update() with each element of stream, hexdigest()
hexdigest(stream) == [kind |-> "hex", of |-> stream]

\* expected=None and expected="" (both falsy in `if expected:`)
NoneValue == [kind |-> "None", of |-> <<>>]
EmptyStr == [kind |-> "empty", of |-> <<>>]

SecureExpectedChoices ==
    { NoneValue, EmptyStr,
      hexdigest(<<hash_file_secure(1)>>),
      hexdigest(<<hash_file_secure(1), hash_file_secure(2)>>),
      hexdigest(<<hash_file_secure(2), hash_file_secure(1)>>) }

\* `if expected:`
Truthy(expected) == expected.kind = "hex"

\* iter_file_meta(path), as the set of relative paths of the files
FilePaths(dir) == { p \in Paths : dir[p] # 0 }

\* dict operations on seen_files (items kept in insertion order)
SeenHas(seen, h) == \E k \in DOMAIN seen : seen[k][1] = h
SeenGet(seen, h) == LET k == CHOOSE k \in DOMAIN seen : seen[k][1] = h IN seen[k][2]
SeenPut(seen, h, p) ==
    IF SeenHas(seen, h)
       THEN [k \in DOMAIN seen |-> IF seen[k][1] = h THEN <<h, p>> ELSE seen[k]]
       ELSE Append(seen, <<h, p>>)

SortKey_Hash(item) == item[1].blake3

\* key=lambda x: x[1] of the final sort: the relative path of the item
SortKey(item) == item[2]

RECURSIVE InsertByKey(_, _)
InsertByKey(x, s) ==
    IF s = <<>> THEN <<x>>
    ELSE IF SortKey(x) < SortKey(Head(s)) THEN <<x>> \o s
    ELSE <<Head(s)>> \o InsertByKey(x, Tail(s))

\* sorted(seen_files.items(), key=lambda x: x[1])
RECURSIVE SortedItems(_)
SortedItems(s) == IF s = <<>> THEN <<>> ELSE InsertByKey(Head(s), SortedItems(Tail(s)))

\* the loop `for file_hash, _ in sorted(...): hasher.update(file_hash)` and hexdigest()
DirHash(seen) == LET items == SortedItems(seen) IN
                 hexdigest([k \in DOMAIN items |-> items[k][1]])

DuplicateFileError_SamePath(file_a, file_b) ==
    [kind |-> "DuplicateFileError", file_a |-> file_a, file_b |-> file_a]

DuplicateFileError(file_a, file_b) ==
    [kind |-> "DuplicateFileError", file_a |-> file_a, file_b |-> file_b]

IntegrityError(path, expected_hash, actual_hash) ==
    [kind |-> "IntegrityError", path |-> path, expected |-> expected_hash,
     actual |-> actual_hash]

Return(value) == [kind |-> "return", value |-> value]

Verify_NoCheck(path, expected, actual) == Return(actual)

\* the tail shared by check_dir_fast and check_dir_secure: compare with expected
Verify(path, expected, actual) ==
    IF Truthy(expected)
       THEN IF expected = actual THEN Return(actual)
            ELSE IntegrityError(path, expected, actual)
       ELSE Return(actual)

SecIdle ==
    /\ sDir = [p \in Paths |-> 0]
    /\ sDir0 = sDir
    /\ sRenames = 0
    /\ raise_dupes = TRUE
    /\ sExpected = NoneValue
    /\ sPc = "off"
    /\ sPending = {}
    /\ seen_files = <<>>
    /\ sResults = <<>>

InitSecure ==
    /\ sDir \in [Paths -> {0} \cup Contents]
    /\ sDir0 = sDir
    /\ sRenames = 0
    /\ raise_dupes \in BOOLEAN
    /\ sExpected \in SecureExpectedChoices
    /\ sPc = "idle"
    /\ sPending = {}
    /\ seen_files = <<>>
    /\ sResults = <<>>

\* check_dir_secure is called: the files are listed and one hashing future is
\* submitted per file
SecureStart ==
    /\ sPc = "idle"
    /\ Len(sResults) < 2
    /\ sPc' = "hashing"
    /\ sPending' = FilePaths(sDir)
    /\ seen_files' = <<>>
    /\ UNCHANGED <<sDir, sDir0, sRenames, raise_dupes, sExpected, sResults>>
    /\ UNCHANGED notSec

\* one round of the as_completed loop, for the future of rel_path
SecureCompleted(rel_path) ==
    /\ sPc = "hashing"
    /\ rel_path \in sPending
    /\ LET file_hash == hash_file_secure(sDir[rel_path]) IN
       IF SeenHas(seen_files, file_hash) /\ raise_dupes
          THEN /\ sResults' = Append(sResults,
                                  DuplicateFileError(rel_path, SeenGet(seen_files, file_hash)))
               /\ sPc' = "idle"
               /\ sPending' = {}
               /\ seen_files' = seen_files
          ELSE /\ seen_files' = SeenPut(seen_files, file_hash, rel_path)
               /\ sPending' = sPending \ {rel_path}
               /\ sPc' = sPc
               /\ sResults' = sResults
    /\ UNCHANGED <<sDir, sDir0, sRenames, raise_dupes, sExpected>>
    /\ UNCHANGED notSec

\* all futures handled: fold the file hashes, verify, return or raise
SecureFinish ==
    /\ sPc = "hashing"
    /\ sPending = {}
    /\ sResults' = Append(sResults, Verify("root", sExpected, DirHash(seen_files)))
    /\ sPc' = "idle"
    /\ UNCHANGED <<sDir, sDir0, sRenames, raise_dupes, sExpected, sPending, seen_files>>
    /\ UNCHANGED notSec

\* between two calls a file is renamed; its content stays
Rename(p, q) ==
    /\ sPc = "idle"
    /\ Len(sResults) = 1
    /\ sRenames < MaxRenames
    /\ sDir[p] # 0
    /\ sDir[q] = 0
    /\ sDir' = [sDir EXCEPT ![p] = 0, ![q] = sDir[p]]
    /\ sRenames' = sRenames + 1
    /\ UNCHANGED <<sDir0, raise_dupes, sExpected, sPc, sPending, seen_files, sResults>>
    /\ UNCHANGED notSec

(***************************************************************************)
(* check_dir_fast and iter_file_meta                                       *)
(***************************************************************************)

MaxSize == 1

\* File and folder names, as their characters
Names == { <<"a">>, <<"b">> }
\* st_size
Sizes == 0 .. MaxSize
\* st_mtime, in whole seconds
Mtimes == { 1, 2 }

\* code point of a character (str comparison orders by code point)
Ord(c) ==
    CASE c = "." -> 46 [] c = "/" -> 47 [] c = "0" -> 48 [] c = "1" -> 49
      [] c = "2" -> 50 [] c = "3" -> 51 [] c = "4" -> 52 [] c = "5" -> 53
      [] c = "6" -> 54 [] c = "7" -> 55 [] c = "8" -> 56 [] c = "9" -> 57
      [] c = ";" -> 59 [] c = "_" -> 95 [] c = "a" -> 97 [] c = "b" -> 98
      [] c = "p" -> 112 [] c = "q" -> 113 [] c = "r" -> 114 [] c = "s" -> 115
      [] c = "t" -> 116 [] c = "u" -> 117 [] c = "v" -> 118 [] c = "w" -> 119
      [] c = "x" -> 120 [] c = "y" -> 121

\* a < b for two str values
RECURSIVE StrLess(_, _)
StrLess(a, b) ==
    IF b = <<>> THEN FALSE
    ELSE IF a = <<>> THEN TRUE
    ELSE IF Head(a) = Head(b) THEN StrLess(Tail(a), Tail(b))
    ELSE Ord(Head(a)) < Ord(Head(b))

Digits == <<"0", "1", "2", "3", "4", "5", "6", "7", "8", "9">>

\* str(n) of a non-negative int
RECURSIVE IntStr(_)
IntStr(n) == IF n < 10 THEN <<Digits[n + 1]>>
             ELSE IntStr(n \div 10) \o <<Digits[(n % 10) + 1]>>

\* str(t) of a float holding whole seconds
FloatStr(t) == IntStr(t) \o <<".", "0">>

\* a file entry of a folder
FileEntry(name, size, mtime) ==
    [name |-> name, kind |-> "file", size |-> size, mtime |-> mtime, children |-> {},
     link |-> FALSE]

\* a folder entry; its children are file entries
DirEntry(name, children) ==
    [name |-> name, kind |-> "dir", size |-> 0, mtime |-> 0, children |-> children,
     link |-> FALSE]

\* the os.DirEntry of a symbolic link: is_dir(), is_file() and stat() are called
\* with their default follow_symlinks=True and answer for the target; for a
\* link whose target does not exist (target = {}) both tests answer False
LinkEntry(name, target) ==
    IF target = {}
       THEN [name |-> name, kind |-> "broken", size |-> 0, mtime |-> 0, children |-> {},
             link |-> TRUE]
       ELSE LET t == CHOOSE e \in target : TRUE
            IN  [t EXCEPT !.name = name, !.link = TRUE]

\* what a folder may hold under one name: nothing, or a file
FileSlots == { <<"none", 0, 0>> } \cup { <<"file", sz, t>> : sz \in Sizes, t \in Mtimes }

\* the folders below the root: files only
Folders ==
    { { FileEntry(n, g[n][2], g[n][3]) : n \in { m \in Names : g[m][1] = "file" } } :
        g \in [Names -> FileSlots] }

\* what the root may hold under one name: nothing, a file, or a folder
RootSlots == { <<"none", 0, 0, {}>> }
             \cup { <<"file", sz, t, {}>> : sz \in Sizes, t \in Mtimes }
             \cup { <<"dir", 0, 0, c>> : c \in Folders }

Trees ==
    { { IF g[n][1] = "file" THEN FileEntry(n, g[n][2], g[n][3]) ELSE DirEntry(n, g[n][4])
          : n \in { m \in Names : g[m][1] # "none" } } :
        g \in [Names -> RootSlots] }

\* the directory states between which a tree is changed: a is a file or a
\* folder, b is a file, a symbolic link to a or a dangling symbolic link, and
\* there may be a file with the name  a;1;1.0b
ChangeTrees ==
    LET A == { {} }
             \cup { { FileEntry(<<"a">>, sz, t) } : sz \in Sizes, t \in Mtimes }
             \cup { { DirEntry(<<"a">>, { FileEntry(<<"b">>, 1, 1) }) } }
        B(a) == { {} }
                \cup { { FileEntry(<<"b">>, sz, 2) } : sz \in Sizes }
                \cup { { LinkEntry(<<"b">>, a) } }
        C == { {}, { FileEntry(<<"a", ";", "1", ";", "1", ".", "0", "b">>, 1, 2) } }
    IN  UNION { { a \cup b \cup c : b \in B(a), c \in C } : a \in A }

\* os.scandir: the entries of a folder in whatever order the OS lists them
Listings(entries) ==
    { l \in [1 .. Cardinality(entries) -> entries] :
        \A i, j \in DOMAIN l : l[i] = l[j] => i = j }

RECURSIVE InsertByName(_, _)
InsertByName(e, s) ==
    IF s = <<>> THEN <<e>>
    ELSE IF StrLess(e.name, Head(s).name) THEN <<e>> \o s
    ELSE <<Head(s)>> \o InsertByName(e, Tail(s))

RECURSIVE SortByNameFrom(_, _)
SortByNameFrom(l, k) ==
    IF k = 0 THEN <<>> ELSE InsertByName(l[k], SortByNameFrom(l, k - 1))

SortedEntries_AsListed(listing) == listing

\* sorted(entries, key=lambda e: e.name)
SortedEntries(listing) == SortByNameFrom(listing, Len(listing))

\* [entry for entry in sorted_entries if entry.is_dir()] and the same for is_file()
RECURSIVE OfKind(_, _)
OfKind(s, kind) ==
    IF s = <<>> THEN <<>>
    ELSE IF Head(s).kind = kind THEN <<Head(s)>> \o OfKind(Tail(s), kind)
    ELSE OfKind(Tail(s), kind)

\* Path(entry).relative_to(root_path), as the characters of its str()
RelPath(prefix, name) == IF prefix = <<>> THEN name ELSE prefix \o <<"/">> \o name

\* one scandir level of iter_file_meta: the folders first, then the files, each
\* in name order; a folder stands for the recursive call on it
Visit(prefix, listing) ==
    LET sorted == SortedEntries(listing)
        dirs == OfKind(sorted, "dir")
        files == OfKind(sorted, "file")
    IN [k \in DOMAIN dirs |->
            [kind |-> "dir", path |-> RelPath(prefix, dirs[k].name), size |-> 0,
             mtime |-> 0, children |-> dirs[k].children]]
       \o
       [k \in DOMAIN files |->
            [kind |-> "file", path |-> RelPath(prefix, files[k].name),
             size |-> files[k].size, mtime |-> files[k].mtime, children |-> {}]]

\* f"{file};{size};{time}".encode("utf-8")
Ident(file, size, time) == file \o <<";">> \o IntStr(size) \o <<";">> \o FloatStr(time)

EmptyFileError(path) == [kind |-> "EmptyFileError", path |-> path]

FastExpectedChoices ==
    { NoneValue, EmptyStr, hexdigest(<<>>), hexdigest(Ident(<<"a">>, 1, 1)) }

IsEmptyFile_Never(size) == FALSE

\* `if size <= 0:`
IsEmptyFile(size) == size <= 0

FastIdle ==
    /\ fTree = {}
    /\ fTree0 = fTree
    /\ fWrites = 0
    /\ raise_empty = TRUE
    /\ fExpected = NoneValue
    /\ fPc = "off"
    /\ fQueue = <<>>
    /\ hasher = <<>>
    /\ fResults = <<>>

InitFast ==
    /\ fTree \in Trees \cup ChangeTrees
    /\ fTree0 = fTree
    /\ fWrites = 0
    /\ raise_empty \in BOOLEAN
    /\ fExpected \in FastExpectedChoices
    /\ fPc = "idle"
    /\ fQueue = <<>>
    /\ hasher = <<>>
    /\ fResults = <<>>

\* check_dir_fast is called; iter_file_meta scans the root folder
FastStart ==
    /\ fPc = "idle"
    /\ Len(fResults) < 2
    /\ \E listing \in Listings(fTree) : fQueue' = Visit(<<>>, listing)
    /\ hasher' = <<>>
    /\ fPc' = "walk"
    /\ UNCHANGED <<fTree, fTree0, fWrites, raise_empty, fExpected, fResults>>
    /\ UNCHANGED notFast

\* iter_file_meta recurses into the next folder and scans it
FastScanDir ==
    /\ fPc = "walk"
    /\ fQueue # <<>>
    /\ Head(fQueue).kind = "dir"
    /\ \E listing \in Listings(Head(fQueue).children) :
           fQueue' = Visit(Head(fQueue).path, listing) \o Tail(fQueue)
    /\ UNCHANGED <<fTree, fTree0, fWrites, raise_empty, fExpected, fPc, hasher, fResults>>
    /\ UNCHANGED notFast

\* iter_file_meta yields the next file; the loop body of check_dir_fast
FastFile ==
    /\ fPc = "walk"
    /\ fQueue # <<>>
    /\ Head(fQueue).kind = "file"
    /\ LET m == Head(fQueue) IN
       IF IsEmptyFile(m.size) /\ raise_empty
          THEN /\ fResults' = Append(fResults, EmptyFileError(m.path))
               /\ fPc' = "idle"
               /\ fQueue' = <<>>
               /\ hasher' = hasher
          ELSE /\ hasher' = hasher \o Ident(m.path, m.size, m.mtime)
               /\ fQueue' = Tail(fQueue)
               /\ fPc' = fPc
               /\ fResults' = fResults
    /\ UNCHANGED <<fTree, fTree0, fWrites, raise_empty, fExpected>>
    /\ UNCHANGED notFast

\* the walk is over: hexdigest(8), verify, return or raise
FastFinish ==
    /\ fPc = "walk"
    /\ fQueue = <<>>
    /\ fResults' = Append(fResults, Verify("root", fExpected, hexdigest(hasher)))
    /\ fPc' = "idle"
    /\ UNCHANGED <<fTree, fTree0, fWrites, raise_empty, fExpected, fQueue, hasher>>
    /\ UNCHANGED notFast

\* between two calls check_dir_fast(path, raise_empty=False) the directory is
\* changed: entries are created, removed, renamed, resized or touched, or a
\* file is rewritten in place and its size and mtime are kept
FastModify ==
    /\ fPc = "idle"
    /\ Len(fResults) = 1
    /\ ~raise_empty
    /\ fExpected = NoneValue
    /\ fTree0 = fTree
    /\ fWrites = 0
    /\ fTree \in ChangeTrees
    /\ \/ /\ fTree' \in ChangeTrees \ { fTree }
          /\ fWrites' = fWrites
       \/ /\ \E e \in fTree : e.kind = "file" /\ ~e.link
          /\ fTree' = fTree
          /\ fWrites' = fWrites + 1
    /\ UNCHANGED <<fTree0, raise_empty, fExpected, fPc, fQueue, hasher, fResults>>
    /\ UNCHANGED notFast

(***************************************************************************)
(* Hamming search (twinspect/metrics/hamming.py), ground truth and         *)
(* evaluation (twinspect/metrics/eff.py)                                   *)
(***************************************************************************)

MaxRows == 3
MaxThreshold == 2
MaxPasses == 2

HexDigits == <<"0", "1", "2", "3", "4", "5", "6", "7",
               "8", "9", "a", "b", "c", "d", "e", "f">>

\* `int(c, 16)` of one hex digit
HexVal(c) == (CHOOSE k \in DOMAIN HexDigits : HexDigits[k] = c) - 1

RECURSIVE BitXor(_, _)
\* `code1 ^ code2` on two unsigned integers
BitXor(a, b) ==
    IF a = 0 /\ b = 0 THEN 0
    ELSE ((a + b) % 2) + 2 * BitXor(a \div 2, b \div 2)

RECURSIVE PopCount(_)
\* np.sum(np.unpackbits(x)) of one unsigned integer
PopCount(x) == IF x = 0 THEN 0 ELSE (x % 2) + PopCount(x \div 2)

\* codes a hash function returned: three of one byte and one of two bytes
CodeChoices == { <<"0", "0">>, <<"0", "1">>, <<"0", "3">>, <<"0", "0", "0", "1">> }

\* the relative path of the file in row r: inside a cluster folder or top-level
FileOf(cluster, r) ==
    LET name == <<"p", "q", "r", "s", "t", "u", "v", "w", "x", "y">>[r]
    IN  IF cluster = <<>> THEN <<name>> ELSE cluster \o <<"/", name>>

\* the cluster folder of each row: the files of one folder follow each other and
\* the top-level files (<<>>) come last, as iter_files yields them; the first
\* folder is called "a"
ClusterColumns(n) ==
    { cl \in [1 .. n -> { <<"a">>, <<"b">>, <<>> }] :
        /\ \A i, j, k \in 1 .. n : (i < j /\ j < k /\ cl[i] = cl[k]) => cl[j] = cl[i]
        /\ \A i, j \in 1 .. n : (i < j /\ cl[i] = <<>>) => cl[j] = <<>>
        /\ \A i \in 1 .. n : cl[i] = <<"b">> => cl[1] = <<"a">> }

\* the id column: enumerate() indexes, of which the one of the failed file d is
\* missing (d = n: no file failed)
IdColumn(n, d) == [r \in 1 .. n |-> IF r - 1 < d THEN r - 1 ELSE r]

Tables ==
    UNION { { [r \in 1 .. n |-> [id |-> IdColumn(n, d)[r],
                                 code |-> codes[r],
                                 file |-> FileOf(cl[r], r)]] :
                codes \in [1 .. n -> CodeChoices],
                cl \in ClusterColumns(n),
                d \in { 1, n } } : n \in 1 .. MaxRows }

\* 64-bit codes: Near(c) of the files of one cluster, pairwise 0 to 2 bits apart,
\* Far(lo, hi, c) of the top-level files, more than 20 bits away from those
Code64(ones, last) == [k \in 1 .. 16 |-> IF k \in ones THEN "f" ELSE IF k = 16 THEN last ELSE "0"]

\* six files in the cluster folder "a", then four top-level files
ScenarioTables ==
    { [r \in 1 .. 10 |->
         [id |-> r - 1,
          code |-> IF r <= 4 THEN Code64({}, "0")
                   ELSE IF r = 5 THEN Code64({}, m5)
                   ELSE IF r = 6 THEN Code64({}, m6)
                   ELSE IF r = 7 THEN Code64(1 .. 6, "0")
                   ELSE IF r = 8 THEN d8
                   ELSE IF r = 9 THEN Code64(7 .. 12, "0")
                   ELSE Code64(11 .. 16, "0"),
          file |-> FileOf(IF r <= 6 THEN <<"a">> ELSE <<>>, r)]] :
        m5 \in { "0", "1", "2" },
        m6 \in { "0", "1", "2" },
        d8 \in { Code64(1 .. 6, "0"), Code64(1 .. 6, "1"), Code64(3 .. 8, "0") } }

\* `hex_codes = [row[self.code_field] for row in reader]`
HexCodes(t) == [r \in 1 .. Len(t) |-> t[r].code]

\* `int(hex_code[j : j + 2], 16)` for j in range(0, len(hex_code), 2)
RowBytes(hex_code) ==
    [k \in 1 .. ((Len(hex_code) + 1) \div 2) |->
        IF 2 * k <= Len(hex_code)
           THEN 16 * HexVal(hex_code[2 * k - 1]) + HexVal(hex_code[2 * k])
           ELSE HexVal(hex_code[2 * k - 1])]

\* `code_length = len(hex_codes[0]) // 2`
CodeLength(hex_codes) == Len(hex_codes[1]) \div 2

\* what the cells hold that np.empty allocated and no code byte was stored in:
\* one byte for all of them; 0 when every row fills code_length cells
GarbageChoices(hex_codes) ==
    IF \E i \in 1 .. Len(hex_codes) : Len(RowBytes(hex_codes[i])) < CodeLength(hex_codes)
       THEN { 0, 255 }
       ELSE { 0 }

\* BaseHammingSearch._load_csv: the uint8 matrix, or the IndexError of a store
\* beyond the row width
load_csv(hex_codes, garbage) ==
    IF \E i \in 1 .. Len(hex_codes) : Len(RowBytes(hex_codes[i])) > CodeLength(hex_codes)
       THEN [kind |-> "IndexError", rows |-> <<>>]
       ELSE [kind |-> "matrix",
             rows |-> [i \in 1 .. Len(hex_codes) |->
                         [k \in 1 .. CodeLength(hex_codes) |->
                            IF k <= Len(RowBytes(hex_codes[i]))
                               THEN RowBytes(hex_codes[i])[k]
                               ELSE garbage]]]

RECURSIVE SumBits(_, _, _)
SumBits(code1, code2, k) ==
    IF k > Len(code1) THEN 0
    ELSE PopCount(BitXor(code1[k], code2[k])) + SumBits(code1, code2, k + 1)

hamming_distance_NoXor(code1, code2) == SumBits(code1, [k \in 1 .. Len(code1) |-> 0], 1)

\* LameDuck.hamming_distance: int(np.sum(np.unpackbits(code1 ^ code2)))
hamming_distance(code1, code2) == SumBits(code1, code2, 1)

\* tuple comparison of (distance, id) pairs
PairLess(a, b) == a[1] < b[1] \/ (a[1] = b[1] /\ a[2] < b[2])

RECURSIVE InsertPair(_, _)
InsertPair(x, s) ==
    IF s = <<>> THEN <<x>>
    ELSE IF PairLess(Head(s), x) THEN <<Head(s)>> \o InsertPair(x, Tail(s))
    ELSE <<x>> \o s

SortPairs_Unsorted(s) == s

RECURSIVE SortPairs(_)
\* `query_result.sort()`
SortPairs(s) == IF s = <<>> THEN <<>> ELSE InsertPair(Head(s), SortPairs(Tail(s)))

RECURSIVE LameDuckScan(_, _, _, _)
\* the inner loop of LameDuck.iter_queries from j on, for the query i
LameDuckScan(codes, i, j, T) ==
    IF j >= Len(codes) THEN <<>>
    ELSE (IF i # j /\ hamming_distance(codes[i + 1], codes[j + 1]) <= T
             THEN << <<hamming_distance(codes[i + 1], codes[j + 1]), j>> >>
             ELSE <<>>)
         \o LameDuckScan(codes, i, j + 1, T)

\* LameDuck.iter_queries, collected by compute_queries
LameDuck_iter_queries(codes, T) ==
    [q \in 1 .. Len(codes) |-> SortPairs(LameDuckScan(codes, q - 1, 0, T))]

\* a Counter over the distances of the row pairs in `pairs`: the keys are the
\* distances that occur
PairCounter(codes, pairs) ==
    LET d == [p \in pairs |-> hamming_distance(codes[p[1]], codes[p[2]])]
    IN  [k \in { d[p] : p \in pairs } |-> Cardinality({ p \in pairs : d[p] = k })]

\* `self.distribution.update([distance])` for every i != j of one pass of
\* LameDuck.iter_queries, added to what the Counter held
LameDuck_distribution(counter, codes) ==
    LET pass == PairCounter(codes, { p \in (DOMAIN codes) \X (DOMAIN codes) : p[1] # p[2] })
    IN  [k \in DOMAIN counter \cup DOMAIN pass |->
            (IF k \in DOMAIN counter THEN counter[k] ELSE 0)
            + (IF k \in DOMAIN pass THEN pass[k] ELSE 0)]

\* distribution(): calculate_chunk gives simprints[i] ^ simprints for every row
\* i, so the Counter covers all ordered pairs of rows, each row with itself
\* included
distribution_metric(simprints) == PairCounter(simprints, (DOMAIN simprints) \X (DOMAIN simprints))

\* the distance an unfilled result slot of index.search holds: the float
\* maximum converted to int32, which is the smallest or the largest int32
MissingDistances == { -2147483647 - 1, 2147483647 }

\* the rank of the item j among equally distant ones
Prio(n, j, tb) == IF tb = "low" THEN j ELSE n - 1 - j

\* IndexBinaryHNSW.search(query_code, k): the k nearest items with their
\* distances, unfilled slots with the label -1
index_search(codes, i, k, tb, missing) ==
    LET n == Len(codes)
        ranked == SortPairs([j \in 1 .. n |->
                      <<hamming_distance(codes[i + 1], codes[j]), Prio(n, j - 1, tb)>>])
    IN  [s \in 1 .. k |->
            IF s <= n THEN <<ranked[s][1], Prio(n, ranked[s][2], tb)>>
            ELSE <<missing, -1>>]

HeroKeep_Self(e, i, T) == e[1] <= T

\* `if dist <= threshold and idx != i`
HeroKeep(e, i, T) == e[1] <= T /\ e[2] # i

\* HammingHero.iter_queries, collected by compute_queries
HammingHero_iter_queries(codes, T, tb, missing) ==
    [q \in 1 .. Len(codes) |->
        LET Keep(e) == HeroKeep(e, q - 1, T)
        IN  SortPairs(SelectSeq(index_search(codes, q - 1, T, tb, missing), Keep))]

\* the rows of the DataFrame compute_queries returns: id = range(len(...))
QueryFrame(lists) == [q \in 1 .. Len(lists) |-> [id |-> q - 1, query_result |-> lists[q]]]

\* load_simprints: the first path segment of a file that contains "/"
Cluster(file) ==
    IF \E k \in 1 .. Len(file) : file[k] = "/"
       THEN [isna |-> FALSE,
             name |-> SubSeq(file, 1, (CHOOSE k \in 1 .. Len(file) :
                                          /\ file[k] = "/"
                                          /\ \A m \in 1 .. (k - 1) : file[m] # "/") - 1)]
       ELSE [isna |-> TRUE, name |-> <<>>]

\* files whose names hold underscores and dots, each the one row of a table
TransformTables ==
    { << [id |-> 0, code |-> <<"0", "0">>, file |-> f] >> :
        f \in { <<"a", "/", "p">>,
                <<"a", "/", "p", "_", "q", ".", "r">>,
                <<"a", "/", "p", ".", "q", "_", "r", ".", "s">>,
                <<"a", "/", "p", "_", "q", ".", "r", ".", "s">>,
                <<"a", "_", "b", "/", "p", ".", "r">>,
                <<"p", "_", "q">> } }

\* s.split(c)[-1]
AfterLast(s, c) ==
    LET at == { k \in 1 .. Len(s) : s[k] = c }
    IN  IF at = {} THEN s
        ELSE SubSeq(s, (CHOOSE k \in at : \A m \in at : m <= k) + 1, Len(s))

\* s.split(c)[0]
BeforeFirst(s, c) ==
    LET at == { k \in 1 .. Len(s) : s[k] = c }
    IN  IF at = {} THEN s
        ELSE SubSeq(s, 1, (CHOOSE k \in at : \A m \in at : k <= m) - 1)

\* load_simprints: the column transform
Transform(file) ==
    IF \E k \in 1 .. Len(file) : file[k] = "_"
       THEN [isna |-> FALSE, name |-> BeforeFirst(AfterLast(file, "_"), ".")]
       ELSE [isna |-> TRUE, name |-> <<>>]

\* dataset_info: relpath.stem.split("_")[-1] for a file in a cluster folder
\* with "_" in relpath.name; the stem is the name up to its last dot, or the
\* whole name when that dot is its first or last character
info_transform(file) ==
    LET name == AfterLast(file, "/")
        dots == { k \in 1 .. Len(name) : name[k] = "." }
        i == IF dots = {} THEN 0 ELSE CHOOSE k \in dots : \A d \in dots : d <= k
        stem == IF 1 < i /\ i < Len(name) THEN SubSeq(name, 1, i - 1) ELSE name
    IN  IF Len(name) < Len(file) /\ (\E k \in 1 .. Len(name) : name[k] = "_")
           THEN [isna |-> FALSE, name |-> AfterLast(stem, "_")]
           ELSE [isna |-> TRUE, name |-> <<>>]

is_original_Always(t, r) == TRUE

\* `cluster_files & simprints["cluster"].ne(simprints["cluster"].shift())`
is_original(t, r) ==
    /\ ~Cluster(t[r].file).isna
    /\ r = 1 \/ Cluster(t[r - 1].file) # Cluster(t[r].file)

\* load_simprints: the table with the columns cluster, transform, is_original
load_simprints(t) ==
    [r \in 1 .. Len(t) |->
        [id |-> t[r].id, code |-> t[r].code, file |-> t[r].file,
         cluster |-> Cluster(t[r].file),
         transform |-> Transform(t[r].file),
         is_original |-> is_original(t, r)]]

RECURSIVE SumHexBits(_, _, _)
SumHexBits(a, b, k) ==
    IF k > Len(a) THEN 0
    ELSE PopCount(BitXor(HexVal(a[k]), HexVal(b[k]))) + SumHexBits(a, b, k + 1)

\* hexhamming.hamming_distance_string on two hex strings of one length
hamming_distance_string(a, b) == SumHexBits(a, b, 1)

RECURSIVE InsertByDistance(_, _)
InsertByDistance(x, s) ==
    IF s = <<>> THEN <<x>>
    ELSE IF Head(s)[1] < x[1] THEN <<Head(s)>> \o InsertByDistance(x, Tail(s))
    ELSE <<x>> \o s

RECURSIVE SortByDistance(_)
\* `sorted(x, key=lambda y: y[0])`, a stable sort
SortByDistance(s) ==
    IF s = <<>> THEN <<>> ELSE InsertByDistance(Head(s), SortByDistance(Tail(s)))

SameCluster_Any(x, y) == TRUE

\* `df[df["cluster"] == x["cluster"]]`
SameCluster(x, y) == Cluster(y.file) = Cluster(x.file)

RECURSIVE Expected(_, _, _)
\* the list comprehension of ground_truth for the row x, from the row k on
Expected(df, x, k) ==
    IF k > Len(df) THEN <<>>
    ELSE (IF SameCluster(x, df[k]) /\ df[k].id # x.id
             THEN << <<hamming_distance_string(x.code, df[k].code), df[k].id>> >>
             ELSE <<>>)
         \o Expected(df, x, k + 1)

NoFrame == [kind |-> "none", rows |-> <<>>]

\* ground_truth: hamming_distance_string raises ValueError for two strings of
\* different lengths
ground_truth(df) ==
    IF \E i, j \in 1 .. Len(df) :
          /\ ~Cluster(df[i].file).isna
          /\ SameCluster(df[i], df[j])
          /\ df[j].id # df[i].id
          /\ Len(df[i].code) # Len(df[j].code)
       THEN [kind |-> "ValueError", rows |-> <<>>]
       ELSE [kind |-> "frame",
             rows |-> [r \in 1 .. Len(df) |->
                         [id |-> df[r].id,
                          ground_truth |->
                              IF ~Cluster(df[r].file).isna
                                 THEN SortByDistance(Expected(df, df[r], 1))
                                 ELSE <<>>]]]

\* `df_ground_truth.merge(df_query_result, on="id")`
Merge(gt_rows, qr_rows) ==
    LET Matched(g) == \E q \in 1 .. Len(qr_rows) : qr_rows[q].id = g.id
        left == SelectSeq(gt_rows, Matched)
    IN  [r \in 1 .. Len(left) |->
            [id |-> left[r].id,
             ground_truth |-> left[r].ground_truth,
             query_result |->
                 qr_rows[CHOOSE q \in 1 .. Len(qr_rows) : qr_rows[q].id = left[r].id]
                     .query_result]]

\* `set(file_id for hamming_distance, file_id in lst if hamming_distance <= threshold)`
IdsWithin(lst, t) == { lst[k][2] : k \in { k \in 1 .. Len(lst) : lst[k][1] <= t } }

RECURSIVE Counts(_, _, _)
\* the loop over the merged rows from the row k on: (tp, fp, fn)
Counts(df, t, k) ==
    IF k > Len(df) THEN <<0, 0, 0>>
    ELSE LET gt == IdsWithin(df[k].ground_truth, t)
             qr == IdsWithin(df[k].query_result, t)
             rest == Counts(df, t, k + 1)
         IN  <<Cardinality(gt \cap qr) + rest[1],
               Cardinality(qr \ gt) + rest[2],
               Cardinality(gt \ qr) + rest[3]>>

RECURSIVE Gcd(_, _)
Gcd(a, b) == IF b = 0 THEN a ELSE Gcd(b, a % b)

\* a float quotient n / d, kept as the reduced fraction <<n, d>>
Quotient(n, d) == <<n \div Gcd(n, d), d \div Gcd(n, d)>>

Ratio_NoGuard(n, d) == IF n > 0 THEN Quotient(n, d) ELSE <<0, d>>

\* `n / d if d > 0 else 0`
Ratio(n, d) == IF d > 0 THEN Quotient(n, d) ELSE <<0, 1>>

\* `2 * precision * recall / (precision + recall) if (precision + recall) > 0 else 0`
F1(p, r) ==
    IF p[1] > 0 \/ r[1] > 0
       THEN Quotient(2 * p[1] * r[1], p[1] * r[2] + r[1] * p[2])
       ELSE <<0, 1>>

\* evaluate
evaluate(gt_rows, qr_rows, max_threshold) ==
    [k \in 1 .. (max_threshold + 1) |->
        LET c == Counts(Merge(gt_rows, qr_rows), k - 1, 1)
            precision == Ratio(c[1], c[1] + c[2])
            recall == Ratio(c[1], c[1] + c[3])
        IN  [threshold |-> k - 1,
             precision |-> precision,
             recall |-> recall,
             f1_score |-> F1(precision, recall)]]

\* effectiveness: `bitlength = int((len(code) / 2) * 8)`, `max_threshold = bitlength // 4`
max_threshold_of(t) == (4 * Len(t[1].code)) \div 4

\* the thresholds compute_queries is called with: small ones and max_threshold
ThresholdChoices == (0 .. MaxThreshold) \cup { max_threshold_of(table) }

SearchIdle ==
    /\ table = <<>>
    /\ missing_distance = 0
    /\ tie_break = "none"
    /\ numpy_codes = <<>>
    /\ qPc = "off"
    /\ engine = "none"
    /\ threshold = 0
    /\ query_results = <<>>
    /\ df_ground_truth = NoFrame
    /\ df_simprints = <<>>
    /\ distribution = <<>>
    /\ passes = 0
    /\ curve = <<>>

InitSearch ==
    /\ table \in Tables \cup ScenarioTables \cup TransformTables
    /\ missing_distance = 0
    /\ tie_break = "none"
    /\ numpy_codes = <<>>
    /\ qPc = "start"
    /\ engine = "none"
    /\ threshold = 0
    /\ query_results = <<>>
    /\ df_ground_truth = NoFrame
    /\ df_simprints = <<>>
    /\ distribution = <<>>
    /\ passes = 0
    /\ curve = <<>>

\* effectiveness: load_simprints and ground_truth
GroundTruth ==
    /\ qPc = "start"
    /\ df_simprints' = load_simprints(table)
    /\ df_ground_truth' = ground_truth(table)
    /\ qPc' = "truth"
    /\ UNCHANGED <<distribution, passes, table, missing_distance, tie_break, numpy_codes,
                   engine, threshold, query_results, curve>>
    /\ UNCHANGED notSearch

\* LameDuck(csv_path): _load_csv
LameDuckInit ==
    /\ qPc = "truth"
    /\ \E g \in GarbageChoices(HexCodes(table)) :
          LET m == load_csv(HexCodes(table), g)
          IN  /\ numpy_codes' = m.rows
              /\ qPc' = IF m.kind = "matrix" THEN "loaded" ELSE "error"
    /\ engine' = "LameDuck"
    /\ distribution' = <<>>
    /\ passes' = 0
    /\ UNCHANGED <<df_simprints, table, missing_distance, tie_break, threshold, query_results,
                   df_ground_truth, curve>>
    /\ UNCHANGED notSearch

\* HammingHero(csv_path): _load_csv, then the index is built from the matrix
HammingHeroInit ==
    /\ qPc = "truth"
    /\ \E g \in GarbageChoices(HexCodes(table)) :
          LET m == load_csv(HexCodes(table), g)
          IN  /\ numpy_codes' = m.rows
              /\ qPc' = IF m.kind = "matrix" THEN "loaded" ELSE "error"
    /\ engine' = "HammingHero"
    /\ UNCHANGED <<distribution, passes, df_simprints, table, missing_distance, tie_break, threshold, query_results,
                   df_ground_truth, curve>>
    /\ UNCHANGED notSearch

\* LameDuck.compute_queries(threshold)
LameDuckComputeQueries ==
    /\ qPc \in { "loaded", "evaluated" }
    /\ engine = "LameDuck"
    /\ passes < MaxPasses
    \* a further pass is made after the evaluation, with the same threshold
    /\ \E T \in IF qPc = "loaded" THEN ThresholdChoices ELSE { threshold } :
          /\ threshold' = T
          /\ query_results' = LameDuck_iter_queries(numpy_codes, T)
    /\ distribution' = LameDuck_distribution(distribution, numpy_codes)
    /\ passes' = passes + 1
    /\ qPc' = IF qPc = "loaded" THEN "queried" ELSE qPc
    /\ UNCHANGED <<df_simprints, table, missing_distance, tie_break, numpy_codes, engine,
                   df_ground_truth, curve>>
    /\ UNCHANGED notSearch

\* HammingHero.compute_queries(threshold); index.search with k = 0 returns no
\* slot or raises, depending on the release of the index library
HammingHeroComputeQueries ==
    /\ qPc = "loaded"
    /\ engine = "HammingHero"
    /\ \E T \in ThresholdChoices :
       \* the index behaves as it was built; a slot is unfilled when k > ntotal
       \E accepts_k0 \in IF T = 0 THEN BOOLEAN ELSE { TRUE },
          tb \in IF T > 0 THEN { "low", "high" } ELSE { tie_break },
          md \in IF T > Len(numpy_codes) THEN MissingDistances ELSE { missing_distance } :
          /\ threshold' = T
          /\ tie_break' = tb
          /\ missing_distance' = md
          /\ IF T > 0 \/ accepts_k0
                THEN /\ query_results' = HammingHero_iter_queries(numpy_codes, T, tb, md)
                     /\ qPc' = "queried"
                ELSE /\ query_results' = <<>>
                     /\ qPc' = "error"
    /\ UNCHANGED <<distribution, passes, df_simprints, table, numpy_codes, engine, df_ground_truth, curve>>
    /\ UNCHANGED notSearch

\* evaluate(df_ground_truth, df_query_results, max_threshold)
Evaluate ==
    /\ qPc = "queried"
    /\ df_ground_truth.kind = "frame"
    /\ curve' = evaluate(df_ground_truth.rows, QueryFrame(query_results), threshold)
    /\ qPc' = "evaluated"
    /\ UNCHANGED <<distribution, passes, df_simprints, table, missing_distance, tie_break, numpy_codes, engine, threshold,
                   query_results, df_ground_truth>>
    /\ UNCHANGED notSearch

NextSearch ==
    \/ GroundTruth
    \/ LameDuckInit
    \/ HammingHeroInit
    \/ LameDuckComputeQueries
    \/ HammingHeroComputeQueries
    \/ Evaluate

(***************************************************************************)
(* Metrics file (twinspect/metrics/utils.py)                               *)
(***************************************************************************)

MaxCalls == 3

\* A dict is a function from its keys; a value is a leaf (a number, string or
\* list, told apart by the number n) or a dict v.
EmptyDict == [k \in {} |-> 0]

Leaf(n) == [leaf |-> TRUE, n |-> n, v |-> EmptyDict]
Dict(d) == [leaf |-> FALSE, n |-> 0, v |-> d]

\* the value of the one metric a metric function passes to update_json:
\* effectiveness a list, distribution a dict with int keys (the key "int:0" is
\* the int 0), speed a dict with string keys
MetricValues(metric) ==
    IF metric = "effectiveness" THEN { Leaf(11), Leaf(12) }
    ELSE IF metric = "distribution"
       THEN { Dict([k \in { "int:0" } |-> Leaf(5)]), Dict([k \in { "int:1" } |-> Leaf(7)]) }
    ELSE { Dict([k \in { "total" } |-> Leaf(1)]), Dict([k \in { "mean" } |-> Leaf(2)]) }

\* `result = {"algorithm": algo, "dataset": dataset, "checksum": checksum,
\*            "metrics": {<metric>: result}}`
DataChoices ==
    UNION { { [k \in { "algorithm", "dataset", "checksum", "metrics" } |->
                 IF k = "metrics" THEN Dict([n \in { metric } |-> value])
                 ELSE IF k = "checksum" THEN Leaf(checksum)
                 ELSE Leaf(0)] :
               value \in MetricValues(metric), checksum \in { 1, 2 } } :
            metric \in { "effectiveness", "distribution", "speed" } }

update_nested_dict_Replace(d, u) == u

RECURSIVE update_nested_dict(_, _)
\* update_nested_dict, for values that keep their type (dict or not) per key
update_nested_dict(d, u) ==
    [k \in DOMAIN d \cup DOMAIN u |->
        IF k \notin DOMAIN u THEN d[k]
        ELSE IF u[k].leaf THEN u[k]
        ELSE Dict(update_nested_dict(IF k \in DOMAIN d THEN d[k].v ELSE EmptyDict, u[k].v))]

\* json.dump writes an int key as the string of its digits
json_key(k) == IF k = "int:0" THEN "0" ELSE IF k = "int:1" THEN "1" ELSE k

RECURSIVE json_round_trip(_)
\* json.dump followed by json.load: int keys become strings; of two members
\* with one name the later one, the int key, is kept
json_round_trip(d) ==
    [s \in { json_key(k) : k \in DOMAIN d } |->
        LET k == IF \E n \in DOMAIN d : n # s /\ json_key(n) = s
                    THEN CHOOSE n \in DOMAIN d : n # s /\ json_key(n) = s
                    ELSE s
        IN  IF d[k].leaf THEN d[k] ELSE Dict(json_round_trip(d[k].v))]

\* update_json: what the file holds after the call
update_json(file, data) ==
    [exists |-> TRUE,
     data |-> json_round_trip(
                  update_nested_dict(IF file.exists THEN file.data ELSE EmptyDict, data))]

\* simprint tables with the columns size and time (process_file rounds the
\* time to whole milliseconds): a single top-level file; a cluster of two
\* files, the second with or without a transform label, hashed in 0 to 2 ms
BenchTables ==
    { << [id |-> 0, code |-> <<"0", "0">>, file |-> <<"p">>, size |-> 4, time |-> 1] >> }
    \cup { << [id |-> 0, code |-> <<"0", "0">>, file |-> <<"a", "/", "p">>,
               size |-> 8, time |-> 1],
              [id |-> 1, code |-> <<"0", "1">>, file |-> f, size |-> 4, time |-> t] >> :
             f \in { <<"a", "/", "q">>, <<"a", "/", "p", "_", "q", ".", "r">> },
             t \in { 0, 1, 2 } }

\* the metric functions that look for a stored value first
CachedMetrics == { "distribution", "robustness", "speed" }

\* get_metric: None, or the value stored under metrics.<metric>
get_metric(file, metric) ==
    IF ~file.exists THEN [found |-> FALSE, value |-> Leaf(0)]
    ELSE IF "metrics" \notin DOMAIN file.data THEN [found |-> FALSE, value |-> Leaf(0)]
    ELSE IF metric \notin DOMAIN file.data["metrics"].v
       THEN [found |-> FALSE, value |-> Leaf(0)]
    ELSE [found |-> TRUE, value |-> file.data["metrics"].v[metric]]

UseStored_IfPresent(result) == result.found

\* `if result:` None, an empty dict and an empty list (the leaf 0) are falsy
UseStored(result) ==
    /\ result.found
    /\ IF result.value.leaf THEN result.value.n # 0 ELSE DOMAIN result.value.v # {}

\* `result = {"algorithm": algo, "dataset": dataset, "checksum": checksum,
\*            "metrics": {<metric>: result}}` of a cached metric function
ResultDict(metric, value) ==
    [k \in { "algorithm", "dataset", "checksum", "metrics" } |->
        IF k = "metrics" THEN Dict([n \in { metric } |-> value])
        ELSE IF k = "checksum" THEN Leaf(1)
        ELSE Leaf(0)]

\* distribution(): `{int(k): int(v) for k, v in sorted(counter.items())}` of
\* the matrix load_csv returns; the distances are 0 and 1
distribution_result(hex_codes) ==
    LET counter == distribution_metric(load_csv(hex_codes, 0).rows)
    IN  Dict([k \in { IF d = 0 THEN "int:0" ELSE "int:1" : d \in DOMAIN counter } |->
                 Leaf(counter[IF k = "int:0" THEN 0 ELSE 1])])

\* robustness(): one entry per transform label of the distances between each
\* original and the other files of its cluster; groupby("transform") leaves
\* out the rows without a label. The list is held as its length. get_group
\* raises KeyError for an original alone in its cluster, groupby("transform")
\* raises KeyError when there is no distance at all.
robustness_result(t) ==
    LET df == load_simprints(t)
        originals == { r \in DOMAIN df : df[r].is_original }
        transformed(c) == { r \in DOMAIN df : ~df[r].is_original /\ df[r].cluster = c }
        distances == UNION { transformed(df[o].cluster) : o \in originals }
    IN  IF \/ \E o \in originals : transformed(df[o].cluster) = {}
           \/ distances = {}
           THEN [kind |-> "KeyError", value |-> Leaf(0)]
           ELSE [kind |-> "return",
                 value |-> Leaf(Cardinality({ df[r].transform.name :
                                   r \in { x \in distances : ~df[x].transform.isna } }))]

\* speed(): min, max, mean and median of size / time over one or two rows whose
\* quotients are even whole numbers, and the "<key>_human" strings, held as the
\* hundredths of MB/s they show; size / 0 raises ZeroDivisionError
speed_result(rows) ==
    IF \E r \in DOMAIN rows : rows[r].time = 0
       THEN [kind |-> "ZeroDivisionError", value |-> Leaf(0)]
       ELSE LET bpms == [r \in DOMAIN rows |-> rows[r].size \div rows[r].time]
                lo == CHOOSE x \in Range(bpms) : \A y \in Range(bpms) : x <= y
                hi == CHOOSE x \in Range(bpms) : \A y \in Range(bpms) : y <= x
                mean == (IF Len(bpms) = 1 THEN bpms[1] ELSE (bpms[1] + bpms[2]) \div 2)
                stat == [k \in { "min", "max", "mean", "median" } |->
                            IF k = "min" THEN lo ELSE IF k = "max" THEN hi ELSE mean]
                readable == ("min_human" :> "min") @@ ("max_human" :> "max")
                            @@ ("mean_human" :> "mean") @@ ("median_human" :> "median")
            IN  [kind |-> "return",
                 value |-> Dict([k \in DOMAIN stat \cup DOMAIN readable |->
                               IF k \in DOMAIN stat THEN Leaf(stat[k])
                               ELSE Leaf((stat[readable[k]] + 5) \div 10)])]

StoreIdle ==
    /\ simprint_file = <<>>
    /\ metrics_file = [exists |-> FALSE, data |-> EmptyDict]
    /\ last_data = EmptyDict
    /\ calls = -1
    /\ caller = "none"
    /\ last_result = [kind |-> "none", value |-> Leaf(0)]
    /\ computed = [m \in CachedMetrics |-> 0]

InitStore ==
    /\ simprint_file \in BenchTables
    /\ metrics_file = [exists |-> FALSE, data |-> EmptyDict]
    /\ last_data = EmptyDict
    /\ calls = 0
    /\ caller = "none"
    /\ last_result = [kind |-> "none", value |-> Leaf(0)]
    /\ computed = [m \in CachedMetrics |-> 0]

\* a metric function stores its result
UpdateJson ==
    /\ calls \in 0 .. (MaxCalls - 1)
    /\ \E data \in DataChoices :
          /\ metrics_file' = update_json(metrics_file, data)
          /\ last_data' = data
    /\ calls' = calls + 1
    /\ caller' = "update_json"
    /\ UNCHANGED <<simprint_file, last_result, computed>>
    /\ UNCHANGED notStore

\* the part the cached metric functions share: the stored value is returned, or
\* the metric is computed (result) and, unless that raised, stored and returned
CachedMetric(metric, result) ==
    /\ calls' = calls + 1
    /\ caller' = metric
    /\ LET stored == get_metric(metrics_file, metric) IN
       IF UseStored(stored)
          THEN /\ last_result' = [kind |-> "return",
                                   value |-> ResultDict(metric, stored.value)]
               /\ UNCHANGED <<metrics_file, last_data, computed>>
          ELSE IF result.kind # "return"
          THEN /\ last_result' = result
               /\ UNCHANGED <<metrics_file, last_data, computed>>
          ELSE /\ last_result' = [kind |-> "return",
                                   value |-> ResultDict(metric, result.value)]
               /\ metrics_file' = update_json(metrics_file, ResultDict(metric, result.value))
               /\ last_data' = ResultDict(metric, result.value)
               /\ computed' = [computed EXCEPT ![metric] = @ + 1]
    /\ UNCHANGED simprint_file
    /\ UNCHANGED notStore

\* distribution(simprint_path)
Distribution ==
    /\ calls \in 0 .. (MaxCalls - 1)
    /\ CachedMetric("distribution",
                    [kind |-> "return", value |-> distribution_result(HexCodes(simprint_file))])

\* robustness(simprint_path)
Robustness ==
    /\ calls \in 0 .. (MaxCalls - 1)
    /\ CachedMetric("robustness", robustness_result(simprint_file))

\* speed(simprint_path)
Speed ==
    /\ calls \in 0 .. (MaxCalls - 1)
    /\ CachedMetric("speed", speed_result(simprint_file))

NextStore ==
    \/ UpdateJson
    \/ Distribution
    \/ Robustness
    \/ Speed

(***************************************************************************)
(* Traversal of the data folder (twinspect/tools.py, iter_files)           *)
(***************************************************************************)

\* `files.sort()` and the yield of each file of one folder; sorting makes the
\* result the same for every listing of the folder
FilesOf(prefix, entries) ==
    LET files == OfKind(SortedEntries(CHOOSE l \in Listings(entries) : TRUE), "file")
    IN  [k \in DOMAIN files |-> RelPath(prefix, files[k].name)]

RECURSIVE WalkDirs(_)
\* os.walk(path, topdown=False) recurses into the sub-folders in the order
\* scandir listed them, before the caller gets (and sorts) the list `dirs`
WalkDirs(dirs) ==
    IF dirs = <<>> THEN <<>>
    ELSE FilesOf(Head(dirs).name, Head(dirs).children) \o WalkDirs(Tail(dirs))

\* iter_files, for the order `listing` in which scandir lists the root folder
iter_files(entries, listing) == WalkDirs(OfKind(listing, "dir")) \o FilesOf(<<>>, entries)

WalkIdle ==
    /\ wTree = {}
    /\ wOrders = <<>>

InitWalk ==
    /\ wTree \in Trees
    /\ wOrders = <<>>

\* the loop `for idx, file_path in enumerate(ts.iter_files(data_folder))`
PopulateTasks ==
    /\ Len(wOrders) < MaxRuns
    /\ \E listing \in Listings(wTree) :
          wOrders' = Append(wOrders, iter_files(wTree, listing))
    /\ UNCHANGED wTree
    /\ UNCHANGED notWalk

(***************************************************************************)
(* Specifications                                                          *)
(***************************************************************************)

PipeIdle ==
    /\ algorithm = [label |-> "algo", function |-> "m:f"]
    /\ outcome = <<>>
    /\ fsTable = [k \in AlgoKeys |-> NoFile]
    /\ fsIndex = [k \in AlgoKeys |-> NoFile]
    /\ pc = "off"
    /\ next_idx = 0
    /\ ran = {}
    /\ collected = <<>>
    /\ results = <<>>
    /\ wpos = 0
    /\ retPath = "none"
    /\ hit = FALSE
    /\ heroIndex = "none"
    /\ hashCalls = 0
    /\ runs = 0

\* the pipeline process, from a fresh root folder
PipeStart == InitPipe /\ SecIdle /\ FastIdle /\ SearchIdle /\ StoreIdle /\ WalkIdle

SpecPipe == PipeStart /\ [][NextPipe]_vars

\* one directory, on which check_dir_secure or check_dir_fast is called twice
IntegrityStart ==
    /\ PipeIdle
    /\ SearchIdle
    /\ StoreIdle
    /\ WalkIdle
    /\ \/ InitSecure /\ FastIdle
       \/ InitFast /\ SecIdle

NextIntegrity ==
    \/ SecureStart
    \/ \E p \in Paths : SecureCompleted(p)
    \/ SecureFinish
    \/ \E p, q \in Paths : Rename(p, q)
    \/ FastStart
    \/ FastScanDir
    \/ FastFile
    \/ FastFinish
    \/ FastModify

SpecIntegrity == IntegrityStart /\ [][NextIntegrity]_vars

\* one simprint table, searched by one engine and evaluated
SearchStart == PipeIdle /\ SecIdle /\ FastIdle /\ StoreIdle /\ WalkIdle /\ InitSearch

SpecSearch == SearchStart /\ [][NextSearch]_vars

\* one metrics file, updated by the metric functions
StoreStart == PipeIdle /\ SecIdle /\ FastIdle /\ SearchIdle /\ WalkIdle /\ InitStore

SpecStore == StoreStart /\ [][NextStore]_vars

\* one data folder, whose files the submit loop enumerates in each run
WalkStart == PipeIdle /\ SecIdle /\ FastIdle /\ SearchIdle /\ StoreIdle /\ InitWalk

SpecWalk == WalkStart /\ [][PopulateTasks]_vars

(***************************************************************************)
(* Claims about the fingerprint pipeline and the cache artifacts           *)
(***************************************************************************)

WrittenTable == fsTable[result_path(algorithm.function)]

\* C1: a table written by process_data_folder holds exactly the tasks whose
\* hash function returned a non-null code, each once, in strictly ascending
\* order of id, whatever the order in which the futures completed.
C1_TableSortedById ==
    (WrittenTable.exists /\ WrittenTable.closed) =>
        LET rows == WrittenTable.rows IN
        /\ \A k \in 1 .. (Len(rows) - 1) : rows[k].id < rows[k + 1].id
        /\ { rows[k].id : k \in DOMAIN rows } = { i \in FileIds : outcome[i + 1] = "code" }
        /\ \A k \in DOMAIN rows : rows[k].code = "hex"

\* C1 witness: the futures were handled in an order that is not the id order,
\* a null task was dropped, and the table was written with two rows or more.
C1_Witness ==
    /\ pc = "returned"
    /\ ~hit
    /\ WrittenTable.closed
    /\ Len(WrittenTable.rows) >= 2
    /\ \E k \in 1 .. (Len(collected) - 1) : collected[k] > collected[k + 1]
    /\ \E i \in FileIds : outcome[i + 1] = "null"

\* C2 (as claimed): a task whose hash function raises does not abort the run,
\* i.e. process_data_folder never ends with that task's exception.
C2_RaiseDoesNotAbort == pc # "failed"

\* C3: when the table file exists at the benchmark's path, the simprint call
\* returns that path, calls the hash function on no file and leaves every
\* table and index file as it is.
C3_CacheHitFrame ==
    [][(pc = "idle" /\ fsTable[filepath(algorithm)].exists /\ pc' # "idle") =>
         /\ pc' = "returned"
         /\ retPath' = filepath(algorithm)
         /\ fsTable' = fsTable
         /\ fsIndex' = fsIndex
         /\ hashCalls' = hashCalls]_vars

\* C3 witness: a simprint call has returned the cached path of a table that an
\* earlier run wrote, after that run hashed files.
C3_Witness ==
    /\ pc = "returned"
    /\ hit
    /\ retPath = filepath(algorithm)
    /\ fsTable[retPath].closed
    /\ hashCalls > 0

\* C4 (as claimed): a run never uses an artifact that was left incomplete: a
\* cached table that simprint returns, and an index file that HammingHero
\* reads, was completely written.
C4_NoPartialArtifactUsed ==
    /\ (pc = "returned" /\ hit) => fsTable[retPath].closed
    /\ (pc \in {"hero_ready", "hero_failed"} /\ fsIndex[retPath].exists) =>
           fsIndex[retPath].closed

(***************************************************************************)
(* Claims about check_dir_secure and check_dir_fast                        *)
(***************************************************************************)

\* a call that got as far as computing the directory digest
HasDigest(r) == r.kind \in {"return", "IntegrityError"}
DigestOf(r) == IF r.kind = "return" THEN r.value ELSE r.actual

\* the directory each finished check_dir_secure call worked on
SecureDirOfCall(k) == IF k = 1 THEN sDir0 ELSE sDir

\* the file contents of a directory, listed in ascending order of relative path
ContentsInPathOrder(dir) ==
    LET ps == FilePaths(dir)
        nth(k) == CHOOSE p \in ps : Cardinality({ q \in ps : q < p }) = k - 1
    IN [k \in 1 .. Cardinality(ps) |-> dir[nth(k)]]

HasDuplicates(dir) == \E p, q \in FilePaths(dir) : p # q /\ dir[p] = dir[q]

\* C5 (as claimed): two check_dir_secure calls on the same unmodified directory
\* return the same digest, whatever the completion order of the hashing
\* futures, duplicates tolerated or not.
C5_SecureDeterministic ==
    (/\ Len(sResults) = 2
     /\ sRenames = 0
     /\ HasDigest(sResults[1])
     /\ HasDigest(sResults[2])) => DigestOf(sResults[1]) = DigestOf(sResults[2])

\* the tree each finished check_dir_fast call worked on
FastTreeOfCall(k) == IF k = 1 THEN fTree0 ELSE fTree

\* C6: two check_dir_fast calls on the same unmodified tree end the same way,
\* with the same digest, whatever order the OS lists the entries in.
C6_FastDeterministic ==
    (Len(fResults) = 2 /\ fTree0 = fTree) =>
        /\ fResults[1].kind = fResults[2].kind
        /\ HasDigest(fResults[1]) => DigestOf(fResults[1]) = DigestOf(fResults[2])

\* C6 witness: both calls returned a digest of a tree with two folders, one of
\* them holding two files.
C6_Witness ==
    /\ Len(fResults) = 2
    /\ fResults[1].kind = "return"
    /\ fResults[2].kind = "return"
    /\ Cardinality({ e \in fTree : e.kind = "dir" }) = 2
    /\ \E e \in fTree : Cardinality(e.children) = 2

C8_DuplicateError ==
    \A k \in DOMAIN sResults :
        (raise_dupes /\ HasDuplicates(SecureDirOfCall(k))) =>
            LET r == sResults[k]
                dir == SecureDirOfCall(k)
            IN /\ r.kind = "DuplicateFileError"
               /\ r.file_a # r.file_b
               /\ {r.file_a, r.file_b} \subseteq FilePaths(dir)
               /\ dir[r.file_a] = dir[r.file_b]

\* C8 witness: the error was raised for the file with the smaller path, so the
\* future of the later-submitted duplicate completed first; a third file with
\* other content is in the directory.
C8_Witness ==
    /\ sResults # <<>>
    /\ sResults[1].kind = "DuplicateFileError"
    /\ sResults[1].file_a < sResults[1].file_b
    /\ Cardinality(FilePaths(sDir0)) = 3

\* the files of zero bytes in a tree, as <<relative path, mtime>>
EmptyFiles(tree) ==
    { <<e.name, e.mtime>> : e \in { x \in tree : x.kind = "file" /\ x.size = 0 } }
    \cup UNION { { <<RelPath(d.name, c.name), c.mtime>> : c \in { x \in d.children : x.size = 0 } }
                   : d \in { x \in tree : x.kind = "dir" } }

\* sub occurs in stream as a run of consecutive elements
Contains(stream, sub) ==
    \E i \in 0 .. (Len(stream) - Len(sub)) : SubSeq(stream, i + 1, i + Len(sub)) = sub

\* C9: if the tree holds a zero-byte file, check_dir_fast with raise_empty=True
\* raises EmptyFileError for such a file and returns nothing; with
\* raise_empty=False it raises no EmptyFileError, the digest it computes covers
\* the path;size;mtime record of every empty file, and that digest is returned
\* whenever the verification against expected lets it through.
C9_EmptyFilePolicy ==
    \A k \in DOMAIN fResults :
        EmptyFiles(FastTreeOfCall(k)) # {} =>
            LET r == fResults[k] IN
            IF raise_empty
               THEN /\ r.kind = "EmptyFileError"
                    /\ \E f \in EmptyFiles(FastTreeOfCall(k)) : r.path = f[1]
               ELSE /\ HasDigest(r)
                    /\ \A f \in EmptyFiles(FastTreeOfCall(k)) :
                           Contains(DigestOf(r).of, Ident(f[1], 0, f[2]))
                    /\ (~Truthy(fExpected) \/ fExpected = DigestOf(r)) => r.kind = "return"

\* C9 witness: raise_empty=True, the walk had already folded a file when it
\* met the empty one, and the call ended with EmptyFileError.
C9_Witness ==
    /\ raise_empty
    /\ fResults # <<>>
    /\ fResults[1].kind = "EmptyFileError"
    /\ hasher # <<>>

\* the last finished call of either function, and the digest it computed
LastFast == fResults[Len(fResults)]
LastSecure == sResults[Len(sResults)]
FastDone == fPc = "idle" /\ fResults # <<>> /\ LastFast.kind # "EmptyFileError"
SecureDone == sPc = "idle" /\ sResults # <<>> /\ LastSecure.kind # "DuplicateFileError"

\* C10 (as claimed): on a mismatch with expected the call raises IntegrityError
\* with path, expected and actual digest, and the function always returns the
\* actual digest.
C10_AlwaysReturnsDigest ==
    /\ FastDone =>
         /\ (Truthy(fExpected) /\ fExpected # hexdigest(hasher)) =>
                LastFast = IntegrityError("root", fExpected, hexdigest(hasher))
         /\ LastFast = Return(hexdigest(hasher))
    /\ SecureDone =>
         /\ (Truthy(sExpected) /\ sExpected # DirHash(seen_files)) =>
                LastSecure = IntegrityError("root", sExpected, DirHash(seen_files))
         /\ LastSecure = Return(DirHash(seen_files))

\* C10 (amended): on a mismatch with a non-empty expected the call raises
\* IntegrityError with path, expected and actual digest and returns nothing;
\* with expected None, empty or equal to the digest it returns the digest.
C10_VerifyOutcome ==
    /\ FastDone =>
         IF Truthy(fExpected) /\ fExpected # hexdigest(hasher)
            THEN /\ LastFast.kind = "IntegrityError"
                 /\ LastFast.path = "root"
                 /\ LastFast.expected = fExpected
                 /\ LastFast.actual = hexdigest(hasher)
            ELSE LastFast.kind = "return" /\ LastFast.value = hexdigest(hasher)
    /\ SecureDone =>
         IF Truthy(sExpected) /\ sExpected # DirHash(seen_files)
            THEN /\ LastSecure.kind = "IntegrityError"
                 /\ LastSecure.path = "root"
                 /\ LastSecure.expected = sExpected
                 /\ LastSecure.actual = DirHash(seen_files)
            ELSE LastSecure.kind = "return" /\ LastSecure.value = DirHash(seen_files)

\* C10 witness: check_dir_fast was given an expected checksum that some tree
\* has, on a tree with another checksum, and raised IntegrityError.
C10_Witness ==
    /\ FastDone
    /\ LastFast.kind = "IntegrityError"
    /\ fExpected = hexdigest(Ident(<<"a">>, 1, 1))
    /\ hasher # <<>>

(***************************************************************************)
(* Claims about the Hamming search, the ground truth and the evaluation    *)
(***************************************************************************)

Queried == qPc \in { "queried", "evaluated" }

\* bit b of the byte x
Bit(x, b) == (x \div (2 ^ b)) % 2

\* the number of bit positions in which two rows of the code matrix differ
BitsApart(code1, code2) ==
    Cardinality({ <<k, b>> \in (1 .. Len(code1)) \X (0 .. 7) :
                    Bit(code1[k], b) # Bit(code2[k], b) })

RowIds == 0 .. (Len(numpy_codes) - 1)

\* C11: for every code matrix and threshold T the exact engine returns for the
\* query i exactly the pairs (d(i,j), j) of all j # i with d(i,j) <= T, each
\* once; with T = 0 every returned item has the same code as the query
C11_ExactEngineComplete ==
    (Queried /\ engine = "LameDuck") =>
        \A i \in RowIds :
            LET lst == query_results[i + 1]
            IN  /\ { lst[k] : k \in 1 .. Len(lst) } =
                      { <<BitsApart(numpy_codes[i + 1], numpy_codes[j + 1]), j>> :
                          j \in { j \in RowIds \ { i } :
                                    BitsApart(numpy_codes[i + 1], numpy_codes[j + 1])
                                        <= threshold } }
                /\ \A k, l \in 1 .. Len(lst) : lst[k] = lst[l] => k = l
                /\ threshold = 0 =>
                      \A k \in 1 .. Len(lst) :
                          numpy_codes[lst[k][2] + 1] = numpy_codes[i + 1]

\* the exact engine with T = 0 found a duplicate of a query and left out an
\* item with another code
C11_Witness ==
    /\ Queried
    /\ engine = "LameDuck"
    /\ threshold = 0
    /\ \E q \in 1 .. Len(query_results) :
          /\ query_results[q] # <<>>
          /\ Len(query_results[q]) < Len(numpy_codes) - 1

\* C12: every result list of either engine is sorted ascending by distance,
\* ties by increasing result id, and does not contain the id of the query
C12_ResultsSortedWithoutSelf ==
    Queried =>
        \A q \in 1 .. Len(query_results) :
            LET lst == query_results[q]
            IN  /\ \A k \in 1 .. (Len(lst) - 1) :
                      \/ lst[k][1] < lst[k + 1][1]
                      \/ lst[k][1] = lst[k + 1][1] /\ lst[k][2] <= lst[k + 1][2]
                /\ \A k \in 1 .. Len(lst) : lst[k][2] # q - 1

\* the approximate engine returned two equally distant items for a query
\* that has an item with a smaller id than theirs
C12_Witness ==
    /\ Queried
    /\ engine = "HammingHero"
    /\ \E q \in 1 .. Len(query_results) :
          /\ Len(query_results[q]) >= 2
          /\ query_results[q][1][1] = query_results[q][2][1]
          /\ query_results[q][1][2] < query_results[q][2][2]
          /\ q - 1 > query_results[q][1][2]

\* the files f and g lie in the same folder below the root
SameFolder(f, g) ==
    \E k \in 1 .. Len(f) :
        /\ k <= Len(g)
        /\ f[k] = "/"
        /\ g[k] = "/"
        /\ \A n \in 1 .. (k - 1) : f[n] = g[n] /\ f[n] # "/"

\* the number of bit positions in which two hex strings of one length differ
HexBitsApart(a, b) ==
    Cardinality({ <<k, n>> \in (1 .. Len(a)) \X (0 .. 3) :
                    Bit(HexVal(a[k]), n) # Bit(HexVal(b[k]), n) })

\* all codes of the table have the length of the first one
OneCodeLength == \A r \in 1 .. Len(table) : Len(table[r].code) = Len(table[1].code)

\* C13: on a table whose codes share one length ground_truth returns one row
\* per table row; the expected list of an item in a cluster holds exactly the
\* other items of that cluster, each once, with the Hamming distance of the two
\* codes, ascending by distance; it is empty for a top-level item and for an
\* item alone in its cluster
C13_GroundTruthIsTheCluster ==
    (qPc # "start" /\ OneCodeLength) =>
        /\ df_ground_truth.kind = "frame"
        /\ Len(df_ground_truth.rows) = Len(table)
        /\ \A r \in 1 .. Len(table) :
              LET lst == df_ground_truth.rows[r].ground_truth
                  mates == { y \in 1 .. Len(table) :
                               y # r /\ SameFolder(table[r].file, table[y].file) }
              IN  /\ df_ground_truth.rows[r].id = table[r].id
                  /\ { lst[k] : k \in 1 .. Len(lst) } =
                        { <<HexBitsApart(table[r].code, table[y].code), table[y].id>> :
                            y \in mates }
                  /\ Len(lst) = Cardinality(mates)
                  /\ \A k \in 1 .. (Len(lst) - 1) : lst[k][1] <= lst[k + 1][1]
                  /\ mates = {} => lst = <<>>

\* ground_truth ran on a table with a cluster of three files of which the
\* nearer to one file comes later in the table
C13_Witness ==
    /\ df_ground_truth.kind = "frame"
    /\ \E r \in 1 .. Len(df_ground_truth.rows) :
          LET lst == df_ground_truth.rows[r].ground_truth
          IN  Len(lst) = 2 /\ lst[1][1] < lst[2][1] /\ lst[1][2] > lst[2][2]

\* the queries evaluate compares: the rows of the ground truth whose id is the
\* id of a row of the query results
Compared ==
    { g \in 1 .. Len(df_ground_truth.rows) :
        df_ground_truth.rows[g].id \in 0 .. (Len(query_results) - 1) }

\* expected and observed ids within the distance t, for the compared row g
E_t(g, t) == IdsWithin(df_ground_truth.rows[g].ground_truth, t)
O_t(g, t) == IdsWithin(query_results[df_ground_truth.rows[g].id + 1], t)

\* the ids any list mentions
AllIds ==
    UNION { { lst[k][2] : k \in 1 .. Len(lst) } :
              lst \in { df_ground_truth.rows[g].ground_truth :
                           g \in 1 .. Len(df_ground_truth.rows) }
                      \cup { query_results[q] : q \in 1 .. Len(query_results) } }

TP(t) == Cardinality({ <<g, x>> \in Compared \X AllIds : x \in E_t(g, t) \cap O_t(g, t) })
FP(t) == Cardinality({ <<g, x>> \in Compared \X AllIds : x \in O_t(g, t) \ E_t(g, t) })
FN(t) == Cardinality({ <<g, x>> \in Compared \X AllIds : x \in E_t(g, t) \ O_t(g, t) })

\* the fraction q is the quotient n / d, and 0 when d is 0
IsQuotient(q, n, d) ==
    IF d = 0 THEN q = <<0, 1>> ELSE q[2] > 0 /\ q[1] * d = n * q[2]

\* C14: evaluate returns max_threshold + 1 entries with the thresholds
\* 0, 1, ..., max_threshold in this order; the entry of t holds
\* precision = TP/(TP+FP), recall = TP/(TP+FN) and f1 = 2PR/(P+R) for the sums
\* TP, FP, FN over the queries of |E_t & O_t|, |O_t \ E_t|, |E_t \ O_t|, each
\* quotient being 0 when its denominator is 0
C14_CurveFromCounts ==
    qPc = "evaluated" =>
        /\ Len(curve) = threshold + 1
        /\ \A k \in 1 .. Len(curve) :
              /\ curve[k].threshold = k - 1
              /\ IsQuotient(curve[k].precision, TP(k - 1), TP(k - 1) + FP(k - 1))
              /\ IsQuotient(curve[k].recall, TP(k - 1), TP(k - 1) + FN(k - 1))
              /\ IsQuotient(curve[k].f1_score, 2 * TP(k - 1),
                            IF TP(k - 1) = 0 THEN 0
                            ELSE 2 * TP(k - 1) + FP(k - 1) + FN(k - 1))

\* evaluate returned a curve with an entry whose three counts are positive and
\* an entry whose counts are all 0
C14_Witness ==
    /\ qPc = "evaluated"
    /\ \E t \in 0 .. threshold : TP(t) > 0 /\ FP(t) > 0 /\ FN(t) > 0
    /\ \E t \in 0 .. threshold : TP(t) + FP(t) + FN(t) = 0

\* the fraction p is at most the fraction q
FractionLeq(p, q) == p[1] * q[2] <= q[1] * p[2]

\* C15: the recall values of the curve evaluate returns do not decrease as the
\* threshold grows from 0 to max_threshold
C15_RecallMonotone ==
    qPc = "evaluated" =>
        \A k \in 1 .. (Len(curve) - 1) : FractionLeq(curve[k].recall, curve[k + 1].recall)

\* the table is one of the scenario: ten files with 64-bit codes, the six of the
\* cluster not all equal, the four top-level files more than 2 bits apart
Scenario ==
    /\ table \in ScenarioTables
    /\ \E r, s \in 1 .. 6 : table[r].code # table[s].code
    /\ \A r, s \in 7 .. 10 : r # s => HexBitsApart(table[r].code, table[s].code) > 2

\* C16: for six files in one cluster with pairwise distances 0 to 2 and four
\* top-level files more than 20 bits away from them (64-bit codes,
\* max_threshold 16) the curve has precision 1 and recall 1 at threshold 2 and
\* precision 1 and recall below 1 at threshold 0
C16_ScenarioCurve ==
    (qPc = "evaluated" /\ Scenario /\ threshold = 16) =>
        /\ curve[3].precision = <<1, 1>>
        /\ curve[3].recall = <<1, 1>>
        /\ curve[1].precision = <<1, 1>>
        /\ ~FractionLeq(<<1, 1>>, curve[1].recall)

(***************************************************************************)
(* Claims about the metrics file                                           *)
(***************************************************************************)

\* the dict under "metrics" that json.load reads from the file
StoredMetrics(file) == IF file.exists THEN file.data["metrics"].v ELSE EmptyDict

\* C17: an update_json call keeps every metric key the file held, with its
\* value, unless the call supplies that metric key
C17_MetricsKept ==
    [][\A m \in DOMAIN StoredMetrics(metrics_file) :
           m \notin DOMAIN last_data'["metrics"].v =>
               /\ m \in DOMAIN StoredMetrics(metrics_file')
               /\ StoredMetrics(metrics_file')[m] = StoredMetrics(metrics_file)[m]]_vars

\* three calls stored three different metrics, the last of them speed with
\* the checksum 2
C17_Witness ==
    /\ calls = 3
    /\ DOMAIN StoredMetrics(metrics_file) = { "effectiveness", "distribution", "speed" }
    /\ DOMAIN last_data["metrics"].v = { "speed" }
    /\ metrics_file.data["checksum"] = Leaf(2)

(***************************************************************************)
(* Claims about the caches of the pipeline and of the index                *)
(***************************************************************************)

\* C18: HammingHero builds and saves the index exactly when the table has no
\* index file; an existing index file is read and never changed, except that
\* the process that created it completes it; so the file of one table is
\* created at most once over all constructions
C18_IndexWrittenOnce ==
    [][/\ \A k \in AlgoKeys :
             (fsIndex[k].exists /\ fsIndex'[k] # fsIndex[k]) =>
                 /\ pc = "hero_save"
                 /\ k = retPath
                 /\ ~fsIndex[k].closed
                 /\ fsIndex'[k] = [fsIndex[k] EXCEPT !.closed = TRUE]
       /\ (pc = "returned" /\ pc' \in { "hero_build", "hero_ready", "hero_failed" }
                /\ fsTable[retPath].rows # <<>>) =>
              IF fsIndex[retPath].exists
                 THEN pc' # "hero_build" /\ (pc' = "hero_ready" => heroIndex' = "loaded")
                 ELSE pc' = "hero_build" /\ heroIndex' = "built"
       /\ pc = "hero_build" =>
              \/ fsIndex'[retPath] = [exists |-> TRUE, closed |-> FALSE, rows |-> <<>>]
              \/ pc' = "idle"
      ]_vars

\* the second construction read the index file the first one had built
C18_Witness ==
    /\ runs = 2
    /\ pc = "hero_ready"
    /\ heroIndex = "loaded"
    /\ fsIndex[retPath].closed

\* C19: once a run of the pipeline has completed and closed its table file, no
\* later simprint call for the same algorithm and dataset starts the pipeline
\* again: the call finds the table under the path it checks
C19_CompletedRunIsCached ==
    [][(\E k \in AlgoKeys : fsTable[k].closed) => ~(pc = "idle" /\ pc' = "submit")]_vars

(***************************************************************************)
(* Claims about the traversal order                                        *)
(***************************************************************************)

\* the file with the path p lies in a cluster folder
Clustered(p) == \E k \in 1 .. Len(p) : p[k] = "/"

\* the order by names: clustered files come before top-level files; clustered
\* files go by cluster name, then file name (the order of their paths);
\* top-level files go by file name
NamesBefore(p, q) == IF Clustered(p) = Clustered(q) THEN StrLess(p, q) ELSE Clustered(p)

\* C20: the id of a file is its position in the order by names, whatever the
\* order in which the operating system lists the folders: clustered files
\* first, by cluster name and file name, then the top-level files by name;
\* so every run gives a file the same id
C20_IdsFromNamesOnly ==
    /\ \A r \in 1 .. Len(wOrders) :
          \A i, j \in 1 .. Len(wOrders[r]) :
              i < j => NamesBefore(wOrders[r][i], wOrders[r][j])
    /\ \A r, s \in 1 .. Len(wOrders) : wOrders[r] = wOrders[s]

(***************************************************************************)
(* Claims about what check_dir_fast is sensitive to                        *)
(***************************************************************************)

\* a tree without its symbolic links
WithoutLinks(tree) == { e \in tree : ~e.link }

\* the symbolic links of a tree
LinksOf(tree) == { e \in tree : e.link }

\* the regular files of a tree, as <<relative path, size, mtime>>
FileMeta(tree) ==
    { <<e.name, e.size, e.mtime>> : e \in { x \in WithoutLinks(tree) : x.kind = "file" } }
    \cup UNION { { <<RelPath(d.name, c.name), c.size, c.mtime>> : c \in d.children }
                   : d \in { x \in WithoutLinks(tree) : x.kind = "dir" } }

\* two calls of check_dir_fast, both of which computed a digest
TwoDigests ==
    /\ Len(fResults) = 2
    /\ HasDigest(fResults[1])
    /\ HasDigest(fResults[2])

\* C21: iter_file_meta ignores symbolic links: the record of a link to a file
\* is never fed to the hasher, nor is a file reached through a link to a
\* folder, and two trees that differ only in their symbolic links have the
\* same checksum.
C21_SymlinksIgnored ==
    /\ \A k \in DOMAIN fResults :
          HasDigest(fResults[k]) =>
              \A l \in LinksOf(FastTreeOfCall(k)) :
                  /\ l.kind = "file" =>
                        ~Contains(DigestOf(fResults[k]).of, Ident(l.name, l.size, l.mtime))
                  /\ l.kind = "dir" =>
                        \A c \in l.children :
                            ~Contains(DigestOf(fResults[k]).of,
                                      Ident(RelPath(l.name, c.name), c.size, c.mtime))
    /\ (TwoDigests /\ WithoutLinks(fTree0) = WithoutLinks(fTree)) =>
          DigestOf(fResults[1]) = DigestOf(fResults[2])

\* C22: two trees without symbolic links that differ in some file's relative
\* path, size or modification time have different checksums (the hash taken
\* as collision-free on the bytes it is fed), and a tree whose files were
\* rewritten with sizes and modification times kept has the checksum it had.
C22_FastSensitivity ==
    (TwoDigests /\ LinksOf(fTree0) = {} /\ LinksOf(fTree) = {}) =>
        /\ FileMeta(fTree0) # FileMeta(fTree) => DigestOf(fResults[1]) # DigestOf(fResults[2])
        /\ (fWrites > 0 /\ fTree0 = fTree) => DigestOf(fResults[1]) = DigestOf(fResults[2])

(***************************************************************************)
(* Further claims about the Hamming search                                 *)
(***************************************************************************)

C24_MismatchedLengthRejected ==
    qPc \in { "loaded", "queried", "evaluated" } =>
        \A r \in 1 .. Len(table) :
            /\ Len(table[r].code) = Len(table[1].code)
            /\ numpy_codes[r] = RowBytes(table[r].code)

(***************************************************************************)
(* Claims about load_simprints                                             *)
(***************************************************************************)

\* the label the file name gives: the last token of the stem of the file name
\* when the file name holds an underscore
StemLabel(file) ==
    LET name == AfterLast(file, "/")
        stem == IF \E k \in 2 .. (Len(name) - 1) : name[k] = "."
                   THEN SubSeq(name, 1, Len(name) - Len(AfterLast(name, ".")) - 1)
                   ELSE name
    IN  IF \E k \in 1 .. Len(name) : name[k] = "_"
           THEN [isna |-> FALSE, name |-> AfterLast(stem, "_")]
           ELSE [isna |-> TRUE, name |-> <<>>]

\* C25: the transformation label load_simprints derives is the final
\* underscore-delimited token of the stem of the file name, absent when the
\* file name holds no underscore, whatever underscores and dots the rest of
\* the path holds; for a clustered file it is the label dataset_info derives.
C25_TransformLabel ==
    \A r \in 1 .. Len(df_simprints) :
        LET row == df_simprints[r]
        IN  /\ row.transform = StemLabel(row.file)
            /\ ~row.cluster.isna => row.transform = info_transform(row.file)

C27_IdsDenoteSameRows ==
    (Queried /\ df_ground_truth.kind = "frame") =>
        /\ \A r \in 1 .. Len(query_results) :
              QueryFrame(query_results)[r].id = df_ground_truth.rows[r].id
        /\ \A q \in 1 .. Len(query_results) :
              \A k \in 1 .. Len(query_results[q]) :
                  LET j == query_results[q][k][2]
                  IN  j \in RowIds => table[j + 1].id = j

(***************************************************************************)
(* Claims about the distance histogram                                     *)
(***************************************************************************)

\* the count a Counter holds for the distance d
CountOf(counter, d) == IF d \in DOMAIN counter THEN counter[d] ELSE 0

\* C30: after any number of complete passes of the exact engine, for any
\* threshold, the histogram LameDuck accumulated holds for every distance the
\* count that distribution() computes for the same table.
C30_HistogramIsDistribution ==
    (engine = "LameDuck" /\ passes > 0) =>
        LET metric == distribution_metric(numpy_codes)
        IN  \A d \in 0 .. (8 * Len(numpy_codes[1])) :
                CountOf(distribution, d) = CountOf(metric, d)

(***************************************************************************)
(* Claims about the cached metric functions                                *)
(***************************************************************************)

\* C28: when the metrics file holds a value for the metric it is asked for,
\* distribution, robustness or speed returns the stored value and leaves the
\* file as it is; the metric is computed and written only when it is not
\* stored, so each of them at most once over any sequence of calls.
C28_StoredMetricIsReused ==
    [][\A m \in CachedMetrics :
          (calls' = calls + 1 /\ caller' = m) =>
              /\ m \in DOMAIN StoredMetrics(metrics_file) =>
                    /\ metrics_file' = metrics_file
                    /\ computed' = computed
                    /\ last_result'.kind = "return"
                    /\ last_result'.value["metrics"].v[m] = StoredMetrics(metrics_file)[m]
              /\ computed'[m] <= 1]_vars

\* C29: for every table the pipeline can write, rows with the time 0 ms
\* included, speed completes without error and returns the minimum, maximum,
\* mean and median of size / time over all rows.
C29_SpeedCompletes ==
    caller = "speed" =>
        /\ last_result.kind = "return"
        /\ { "min", "max", "mean", "median" }
               \subseteq DOMAIN last_result.value["metrics"].v["speed"].v

====
